---- MODULE Spec2Model ----
(***************************************************************************)
(* A model of the chat-export preparation pipeline of                      *)
(* finetuning-functions: load_chats, the date filter, create_sessions,     *)
(* combine_consecutive_messages, the session filter and the jsonl writer,  *)
(* in the refactored form (src/prepare_data.py) and in the original        *)
(* inline form (src/src/prepare_data.py).                                  *)
(*                                                                         *)
(* A str is a sequence of one-character strings, a datetime is a number    *)
(* of seconds, a Python list is a sequence, None is the record NoneValue.  *)
(* The Message objects of a list are distinct objects, as load_chats       *)
(* builds them; combine_consecutive_messages rewrites their text in place, *)
(* so the values kept of a direct call are the values at its return.       *)
(***************************************************************************)
EXTENDS Integers, Sequences, FiniteSets, TLC

VARIABLES
    input,                      \* the parsed export: json.load(f)["chats"]["list"]
    target_arg,                 \* transform_chats(target_name=...)
    last_x_months,              \* transform_chats(last_x_months=...)
    session_minutes_threshold,  \* transform_chats(session_minutes_threshold=...)
    delimiter,                  \* transform_chats(concat_one_user_messages_delimeter=...)
    now,                        \* the value datetime.now() returns during the run
    impl,                       \* which transform_chats runs: "refactored" or "original"
    pc,                         \* position of the run
    chats,                      \* the local list `chats` of transform_chats
    target_name,                \* the local `target_name` once resolved
    outfile,                    \* the content of the output file
    warned,                     \* whether logger.warning was called
    error,                      \* the exception that ended the run, "" if none
    fn_messages,                \* direct call: the list given to create_sessions
    fn_sessions,                \* direct call: create_sessions' result, as returned
    fn_merged,                  \* direct call: combine_consecutive_messages' result, as returned
    fn_remerged                 \* direct call: the result of applying it to fn_merged

vars == <<input, target_arg, last_x_months, session_minutes_threshold, delimiter,
          now, impl, pc, chats, target_name, outfile, warned, error,
          fn_messages, fn_sessions, fn_merged, fn_remerged>>

config_vars == <<input, target_arg, last_x_months, session_minutes_threshold,
                 delimiter, now, impl>>

fn_vars == <<fn_messages, fn_sessions, fn_merged, fn_remerged>>

-----------------------------------------------------------------------------
(* Python values *)

\* None, and a str held in an Optional[str]
NoneValue == [some |-> FALSE, val |-> <<>>]

SomeStr(s) == [some |-> TRUE, val |-> s]

\* bool(x) of an Optional[str]: None and "" are falsy
Truthy(opt) == opt.some /\ opt.val # <<>>

\* a == b between a str and an Optional[str]: a str never equals None
StrEq(s, opt) == opt.some /\ opt.val = s

\* the characters str.lstrip() removes
Whitespace == {" ", "\t", "\n", "\r", "\f"}

RECURSIVE lstrip(_)
lstrip(s) ==
    IF s # <<>> /\ Head(s) \in Whitespace THEN lstrip(Tail(s)) ELSE s

\* timedelta arithmetic: a day has 86400 seconds, a minute 60
SecondsPerDay == 86400

SecondsPerMinute == 60

DaysPerMonth == 30

\* (later - earlier).seconds: the seconds field of the normalised timedelta,
\* 0 <= seconds < 86400, the whole days being held in .days
TimedeltaSeconds(later, earlier) == (later - earlier) % SecondsPerDay

-----------------------------------------------------------------------------
(* create_sessions, src/prepare_data.py *)

Last(s) == s[Len(s)]

\* the test of the loop body: the message extends the current session
ExtendsSession(msg, current_session, threshold) ==
    \/ current_session = <<>>
    \/ TimedeltaSeconds(msg.date, Last(current_session).date)
         < threshold * SecondsPerMinute      \* .seconds / 60 < threshold

RECURSIVE create_sessions_loop(_, _, _, _)
create_sessions_loop(messages, threshold, sessions, current_session) ==
    IF messages = <<>>
    THEN IF current_session # <<>> THEN Append(sessions, current_session) ELSE sessions
    ELSE LET msg == Head(messages) IN
         IF ExtendsSession(msg, current_session, threshold)
         THEN create_sessions_loop(Tail(messages), threshold, sessions,
                                   Append(current_session, msg))
         ELSE create_sessions_loop(Tail(messages), threshold,
                                   Append(sessions, current_session), <<msg>>)

create_sessions(messages, threshold) ==
    create_sessions_loop(messages, threshold, <<>>, <<>>)

-----------------------------------------------------------------------------
(* combine_consecutive_messages, src/prepare_data.py *)

\* StartRun with the delimiter left unstripped
StartRun_unstripped(msg, delim) == [msg EXCEPT !.text = delim \o @]

\* current_message.text = delimiter.lstrip() + current_message.text
StartRun(msg, delim) == [msg EXCEPT !.text = lstrip(delim) \o @]

\* ExtendRun joining with the stripped delimiter
ExtendRun_stripped(current_message, msg, delim) ==
    [current_message EXCEPT !.text = @ \o lstrip(delim) \o msg.text]

\* current_message.text += delimiter + msg.text
ExtendRun(current_message, msg, delim) ==
    [current_message EXCEPT !.text = @ \o delim \o msg.text]

RECURSIVE combine_session_loop(_, _, _, _)
combine_session_loop(rest, delim, combined_session, current_message) ==
    IF rest = <<>>
    THEN Append(combined_session, current_message)
    ELSE LET msg == Head(rest) IN
         IF msg.author = current_message.author
         THEN combine_session_loop(Tail(rest), delim, combined_session,
                                   ExtendRun(current_message, msg, delim))
         ELSE combine_session_loop(Tail(rest), delim,
                                   Append(combined_session, current_message),
                                   StartRun(msg, delim))

\* combine_session without the test of the author: nothing is merged
combine_session_unmerged(session, delim) ==
    [i \in 1..Len(session) |-> StartRun(session[i], delim)]

\* the body of `for session in sessions`; session[0] needs a non-empty session
combine_session(session, delim) ==
    combine_session_loop(Tail(session), delim, <<>>, StartRun(session[1], delim))

combine_consecutive_messages(sessions, delim) ==
    [i \in 1..Len(sessions) |-> combine_session(sessions[i], delim)]

-----------------------------------------------------------------------------
(* load_chats, src/prepare_data.py *)

\* the three kinds class Chat accepts: Literal[...] of its `type` field
ChatTypes == {"personal_chat", "private_group", "private_supergroup"}

\* f"user{target_id}"
UserId(n) == [kind |-> "user", n |-> n]

\* index of the message next(...) stops at in a self-record: the first one
\* whose from_id is missing (msg["from_id"] raises) or equals user{id};
\* 0 when the generator is exhausted
RECURSIVE SelfScan(_, _, _)
SelfScan(messages, target_id, i) ==
    IF i > Len(messages) THEN 0
    ELSE IF ~messages[i].has_from_id \/ messages[i].from_id = UserId(target_id)
    THEN i
    ELSE SelfScan(messages, target_id, i + 1)

\* the branch `if "name" not in chat`
LoadSelfRecord(chat, acc) ==
    LET target_id == chat.id
        i == SelfScan(chat.messages, target_id, 1)
    IN  IF i = 0 THEN [acc EXCEPT !.error = "StopIteration"]
        ELSE IF ~chat.messages[i].has_from_id THEN [acc EXCEPT !.error = "KeyError"]
        ELSE IF ~chat.messages[i].has_from THEN [acc EXCEPT !.error = "KeyError"]
        ELSE [acc EXCEPT !.target_id = target_id,
                         !.target_name = SomeStr(chat.messages[i].from)]

\* the condition of the list comprehension, for a record it does not raise on
MessageKept(msg) ==
    /\ msg.has_from
    /\ msg.from # <<>>
    /\ (msg.text_entities # <<>> \/ msg.has_sticker_emoji)

\* msg["text_entities"] is evaluated once "from" is present and non-empty
MessageRaises(msg) ==
    msg.has_from /\ msg.from # <<>> /\ ~msg.has_text_entities

RECURSIVE JoinAll(_)
JoinAll(fragments) ==
    IF fragments = <<>> THEN <<>> ELSE Head(fragments) \o JoinAll(Tail(fragments))

\* Message(date=..., author=msg["from"], text="".join(...) + msg.get("sticker_emoji", ""))
MakeMessage(msg) ==
    [date |-> msg.date,
     author |-> msg.from,
     text |-> JoinAll(msg.text_entities)
              \o (IF msg.has_sticker_emoji THEN msg.sticker_emoji ELSE <<>>)]

RECURSIVE SelectMessages(_)
SelectMessages(raw) ==
    IF raw = <<>> THEN <<>>
    ELSE IF MessageKept(Head(raw))
    THEN <<MakeMessage(Head(raw))>> \o SelectMessages(Tail(raw))
    ELSE SelectMessages(Tail(raw))

\* the branch `elif chat["name"]`
LoadOrdinaryChat(chat, acc) ==
    IF \E i \in 1..Len(chat.messages) : MessageRaises(chat.messages[i])
    THEN [acc EXCEPT !.error = "KeyError"]
    ELSE LET messages == SelectMessages(chat.messages) IN
         IF messages = <<>> THEN acc
         ELSE IF chat.type \notin ChatTypes
         THEN [acc EXCEPT !.error = "ValidationError"]
         ELSE [acc EXCEPT !.chats = Append(@, [name |-> chat.name,
                                              type |-> chat.type,
                                              messages |-> messages,
                                              sessions |-> <<>>])]

\* one iteration of `for chat in json.load(f)["chats"]["list"]`
LoadEntry(chat, acc) ==
    IF ~chat.has_name THEN LoadSelfRecord(chat, acc)
    ELSE IF chat.name # <<>> THEN LoadOrdinaryChat(chat, acc)
    ELSE acc

RECURSIVE LoadEntries(_, _)
LoadEntries(entries, acc) ==
    IF entries = <<>> \/ acc.error # "" THEN acc
    ELSE LoadEntries(Tail(entries), LoadEntry(Head(entries), acc))

\* what load_chats returns, or the exception it raises (error # ""); warned
\* says whether the warning of the last lines was logged
load_chats(export) ==
    LET acc == LoadEntries(export, [chats |-> <<>>, target_id |-> 0,
                                    target_name |-> NoneValue, error |-> ""])
    IN  [chats |-> acc.chats,
         target_name |-> acc.target_name,
         error |-> acc.error,
         warned |-> acc.error = "" /\ ~Truthy(acc.target_name)]

-----------------------------------------------------------------------------
(* transform_chats, src/prepare_data.py (refactored) *)

\* datetime.now() - timedelta(days=last_x_months * 30)
cutoff_date(clock, months) == clock - months * DaysPerMonth * SecondsPerDay

RECURSIVE NewerThan(_, _)
\* [msg for msg in chat.messages if msg.date > cutoff_date]
NewerThan(messages, cutoff) ==
    IF messages = <<>> THEN <<>>
    ELSE IF Head(messages).date > cutoff
    THEN <<Head(messages)>> \o NewerThan(Tail(messages), cutoff)
    ELSE NewerThan(Tail(messages), cutoff)

\* setattr(chat, "messages", filtered_messages) returns None
setattr_result == NoneValue

\* the condition of the comprehension:
\* (filtered_messages := [...]) and setattr(chat, "messages", filtered_messages)
DateFilterKeeps(chat, cutoff) ==
    NewerThan(chat.messages, cutoff) # <<>> /\ Truthy(setattr_result)

RECURSIVE date_filter(_, _)
\* chats = [chat for chat in chats if <condition>], the kept chats carrying
\* the messages the condition assigned
date_filter(cs, cutoff) ==
    IF cs = <<>> THEN <<>>
    ELSE IF DateFilterKeeps(Head(cs), cutoff)
    THEN <<[Head(cs) EXCEPT !.messages = NewerThan(@, cutoff)]>>
         \o date_filter(Tail(cs), cutoff)
    ELSE date_filter(Tail(cs), cutoff)

\* any(msg.author == target_name for msg in session[1:])
TargetAfterFirst(session, target) ==
    \E i \in 2..Len(session) : StrEq(session[i].author, target)

RECURSIVE session_filter(_, _)
\* [session for session in chat.sessions if any(...)]
session_filter(sessions, target) ==
    IF sessions = <<>> THEN <<>>
    ELSE IF TargetAfterFirst(Head(sessions), target)
    THEN <<Head(sessions)>> \o session_filter(Tail(sessions), target)
    ELSE session_filter(Tail(sessions), target)

\* the body of `for chat in chats`
chat_sessions(chat, threshold, delim, target) ==
    session_filter(
        combine_consecutive_messages(create_sessions(chat.messages, threshold), delim),
        target)

RECURSIVE all_sessions(_)
\* [session for chat in chats for session in chat.sessions]
all_sessions(cs) ==
    IF cs = <<>> THEN <<>> ELSE Head(cs).sessions \o all_sessions(Tail(cs))

IM_START == <<"<", "|", "i", "m", "_", "s", "t", "a", "r", "t", "|", ">">>

IM_END == <<"<", "|", "i", "m", "_", "e", "n", "d", "|", ">">>

\* f"<|im_start|>{msg.author}\n{msg.text}<|im_end|>"
turn(msg) == IM_START \o msg.author \o <<"\n">> \o msg.text \o IM_END

RECURSIVE session_text(_)
\* "\n".join(turn for msg in session)
session_text(session) ==
    IF session = <<>> THEN <<>>
    ELSE IF Len(session) = 1 THEN turn(session[1])
    ELSE turn(Head(session)) \o <<"\n">> \o session_text(Tail(session))

\* json's escape of one character inside a string, ensure_ascii=False
json_escape_char(c) ==
    CASE c = "\"" -> <<"\\", "\"">>
      [] c = "\\" -> <<"\\", "\\">>
      [] c = "\n" -> <<"\\", "n">>
      [] c = "\r" -> <<"\\", "r">>
      [] c = "\t" -> <<"\\", "t">>
      [] c = "\f" -> <<"\\", "f">>
      [] OTHER -> <<c>>

RECURSIVE json_escape(_)
\* every character replaced by its escape, the string taken by halves
json_escape(str) ==
    IF str = <<>> THEN <<>>
    ELSE IF Len(str) = 1 THEN json_escape_char(str[1])
    ELSE LET half == Len(str) \div 2 IN
         json_escape(SubSeq(str, 1, half)) \o json_escape(SubSeq(str, half + 1, Len(str)))

\* json.dump({"text": text}, f, ensure_ascii=False)
json_dump(text) ==
    <<"{", "\"", "t", "e", "x", "t", "\"", ":", " ", "\"">>
    \o json_escape(text) \o <<"\"", "}">>

RECURSIVE written_lines(_)
\* for session in session_dicts: json.dump(session, f, ...); f.write("\n")
written_lines(sessions) ==
    IF sessions = <<>> THEN <<>>
    ELSE json_dump(session_text(Head(sessions))) \o <<"\n">>
         \o written_lines(Tail(sessions))

\* write_output with the file opened in mode "a"
write_output_append(old_content, sessions) == old_content \o written_lines(sessions)

\* the file after `with open(output, "w", encoding="utf-8") as f:` and the loop
write_output(old_content, sessions) == written_lines(sessions)

\* lines 74-76: load_chats and the resolution of target_name
R_Load ==
    /\ impl = "refactored"
    /\ pc = "start"
    /\ LET r == load_chats(input) IN
         IF r.error # ""
         THEN /\ pc' = "raised"
              /\ error' = r.error
              /\ UNCHANGED <<chats, target_name, warned>>
         ELSE /\ pc' = "loaded"
              /\ chats' = r.chats
              /\ target_name' = IF Truthy(target_arg) THEN target_arg ELSE r.target_name
              /\ warned' = r.warned
              /\ UNCHANGED error
    /\ UNCHANGED <<config_vars, outfile, fn_vars>>

\* lines 78-89
R_DateFilter ==
    /\ impl = "refactored"
    /\ pc = "loaded"
    /\ chats' = date_filter(chats, cutoff_date(now, last_x_months))
    /\ pc' = "filtered"
    /\ UNCHANGED <<config_vars, target_name, outfile, warned, error, fn_vars>>

\* lines 91-100
R_Sessions ==
    /\ impl = "refactored"
    /\ pc = "filtered"
    /\ chats' = [i \in 1..Len(chats) |->
                   [chats[i] EXCEPT !.sessions =
                      chat_sessions(chats[i], session_minutes_threshold,
                                    delimiter, target_name)]]
    /\ pc' = "sessions"
    /\ UNCHANGED <<config_vars, target_name, outfile, warned, error, fn_vars>>

\* lines 102-116
R_Write ==
    /\ impl = "refactored"
    /\ pc = "sessions"
    /\ outfile' = write_output(outfile, all_sessions(chats))
    /\ pc' = "done"
    /\ UNCHANGED <<config_vars, chats, target_name, warned, error, fn_vars>>

-----------------------------------------------------------------------------
(* transform_chats, src/src/prepare_data.py (original, inline stages) *)

\* lines 87-90
O_Load ==
    /\ impl = "original"
    /\ pc = "start"
    /\ LET r == load_chats(input) IN
         IF r.error # ""
         THEN /\ pc' = "raised"
              /\ error' = r.error
              /\ UNCHANGED <<chats, target_name, warned>>
         ELSE /\ pc' = "loaded"
              /\ chats' = r.chats
              /\ target_name' = IF ~Truthy(target_arg) THEN r.target_name ELSE target_arg
              /\ warned' = r.warned
              /\ UNCHANGED error
    /\ UNCHANGED <<config_vars, outfile, fn_vars>>

RECURSIVE O_newer_messages(_, _)
\* [msg for msg in chat.messages if msg.date > datetime.now() - timedelta(...)]
O_newer_messages(messages, cutoff) ==
    IF messages = <<>> THEN <<>>
    ELSE IF Head(messages).date > cutoff
    THEN <<Head(messages)>> \o O_newer_messages(Tail(messages), cutoff)
    ELSE O_newer_messages(Tail(messages), cutoff)

RECURSIVE O_nonempty_chats(_)
\* chats = [chat for chat in chats if chat.messages]
O_nonempty_chats(cs) ==
    IF cs = <<>> THEN <<>>
    ELSE IF Head(cs).messages # <<>>
    THEN <<Head(cs)>> \o O_nonempty_chats(Tail(cs))
    ELSE O_nonempty_chats(Tail(cs))

\* lines 93-99: drop the old messages of every chat, then the empty chats
O_date_filter(cs, cutoff) ==
    O_nonempty_chats([i \in 1..Len(cs) |->
        [cs[i] EXCEPT !.messages = O_newer_messages(@, cutoff)]])

O_DateFilter ==
    /\ impl = "original"
    /\ pc = "loaded"
    /\ chats' = O_date_filter(chats, now - last_x_months * DaysPerMonth * SecondsPerDay)
    /\ pc' = "filtered"
    /\ UNCHANGED <<config_vars, target_name, outfile, warned, error, fn_vars>>

RECURSIVE O_sessions_loop(_, _, _, _)
\* lines 105-118
O_sessions_loop(messages, threshold, sessions, current_session) ==
    IF messages = <<>>
    THEN IF current_session # <<>> THEN Append(sessions, current_session) ELSE sessions
    ELSE LET msg == Head(messages) IN
         IF \/ current_session = <<>>
            \/ TimedeltaSeconds(msg.date, Last(current_session).date)
                 < threshold * SecondsPerMinute
         THEN O_sessions_loop(Tail(messages), threshold, sessions,
                              Append(current_session, msg))
         ELSE O_sessions_loop(Tail(messages), threshold,
                              Append(sessions, current_session), <<msg>>)

\* lines 104-120
O_Segment ==
    /\ impl = "original"
    /\ pc = "filtered"
    /\ chats' = [i \in 1..Len(chats) |->
                   [chats[i] EXCEPT !.sessions =
                      O_sessions_loop(chats[i].messages, session_minutes_threshold,
                                      <<>>, <<>>)]]
    /\ pc' = "segmented"
    /\ UNCHANGED <<config_vars, target_name, outfile, warned, error, fn_vars>>

RECURSIVE O_merge_loop(_, _, _, _)
\* lines 131-143
O_merge_loop(rest, delim, current_session, current_message) ==
    IF rest = <<>>
    THEN Append(current_session, current_message)
    ELSE LET msg == Head(rest) IN
         IF msg.author = current_message.author
         THEN O_merge_loop(Tail(rest), delim, current_session,
                [current_message EXCEPT !.text = @ \o delim \o msg.text])
         ELSE O_merge_loop(Tail(rest), delim,
                Append(current_session, current_message),
                [msg EXCEPT !.text = lstrip(delim) \o @])

\* lines 126-144, for one session
O_merge_session(session, delim) ==
    O_merge_loop(Tail(session), delim, <<>>,
                 [session[1] EXCEPT !.text = lstrip(delim) \o @])

\* lines 123-146
O_Merge ==
    /\ impl = "original"
    /\ pc = "segmented"
    /\ chats' = [i \in 1..Len(chats) |->
                   [chats[i] EXCEPT !.sessions =
                      [k \in 1..Len(chats[i].sessions) |->
                         O_merge_session(chats[i].sessions[k], delimiter)]]]
    /\ pc' = "merged"
    /\ UNCHANGED <<config_vars, target_name, outfile, warned, error, fn_vars>>

RECURSIVE O_session_filter_whole(_, _)
\* O_session_filter with `session` in place of `session[1:]`
O_session_filter_whole(sessions, target) ==
    IF sessions = <<>> THEN <<>>
    ELSE IF \E i \in 1..Len(Head(sessions)) : StrEq(Head(sessions)[i].author, target)
    THEN <<Head(sessions)>> \o O_session_filter_whole(Tail(sessions), target)
    ELSE O_session_filter_whole(Tail(sessions), target)

RECURSIVE O_session_filter(_, _)
\* lines 151-155
O_session_filter(sessions, target) ==
    IF sessions = <<>> THEN <<>>
    ELSE IF \E i \in 2..Len(Head(sessions)) : StrEq(Head(sessions)[i].author, target)
    THEN <<Head(sessions)>> \o O_session_filter(Tail(sessions), target)
    ELSE O_session_filter(Tail(sessions), target)

\* lines 150-155
O_Filter ==
    /\ impl = "original"
    /\ pc = "merged"
    /\ chats' = [i \in 1..Len(chats) |->
                   [chats[i] EXCEPT !.sessions = O_session_filter(@, target_name)]]
    /\ pc' = "sessions"
    /\ UNCHANGED <<config_vars, target_name, outfile, warned, error, fn_vars>>

\* lines 158-161: del msg.date
O_RemoveDate ==
    /\ impl = "original"
    /\ pc = "sessions"
    /\ chats' = [i \in 1..Len(chats) |->
                   [chats[i] EXCEPT !.sessions =
                      [k \in 1..Len(@) |->
                         [m \in 1..Len(@[k]) |->
                            [author |-> @[k][m].author, text |-> @[k][m].text]]]]]
    /\ pc' = "undated"
    /\ UNCHANGED <<config_vars, target_name, outfile, warned, error, fn_vars>>

RECURSIVE O_all_sessions(_)
\* lines 164-172
O_all_sessions(cs) ==
    IF cs = <<>> THEN <<>> ELSE Head(cs).sessions \o O_all_sessions(Tail(cs))

RECURSIVE O_session_text(_)
\* lines 176-181
O_session_text(session) ==
    IF session = <<>> THEN <<>>
    ELSE LET block == IM_START \o Head(session).author \o <<"\n">>
                      \o Head(session).text \o IM_END
         IN  IF Len(session) = 1 THEN block
             ELSE block \o <<"\n">> \o O_session_text(Tail(session))

RECURSIVE O_written_lines(_)
\* lines 187-188: f.write(json.dumps(session, ensure_ascii=False) + "\n")
O_written_lines(sessions) ==
    IF sessions = <<>> THEN <<>>
    ELSE json_dump(O_session_text(Head(sessions))) \o <<"\n">>
         \o O_written_lines(Tail(sessions))

\* lines 186-188: the file after open(output, "w") and the loop
O_write_output(old_content, sessions) == O_written_lines(sessions)

\* lines 164-189
O_Write ==
    /\ impl = "original"
    /\ pc = "undated"
    /\ outfile' = O_write_output(outfile, O_all_sessions(chats))
    /\ pc' = "done"
    /\ UNCHANGED <<config_vars, chats, target_name, warned, error, fn_vars>>

-----------------------------------------------------------------------------
(* Runs of transform_chats: the exports and configurations explored *)

Alice == <<"A">>

Bob == <<"B">>

Authors == {Alice, Bob}

DefaultDelimiter == <<"\n", ">", ">", ">">>

DefaultThreshold == 10

DefaultMonths == 60

\* the clock of the run, chosen so that the default cutoff is a small date
Clock == DefaultMonths * DaysPerMonth * SecondsPerDay + 100000

Cutoff == cutoff_date(Clock, DefaultMonths)

\* dates of a first message: older than the cutoff, the cutoff itself, newer
FirstDates == {Cutoff - 60, Cutoff, Cutoff + 1000}

\* gaps to the next message of a chat, in seconds: two and twelve minutes
ChatGaps == {120, 720}

\* a message record of the export with every field present
RawMessage(author, date, text) ==
    [date |-> date, has_from |-> TRUE, from |-> author,
     has_from_id |-> TRUE, from_id |-> UserId(IF author = Alice THEN 1 ELSE 2),
     has_text_entities |-> TRUE, text_entities |-> <<text>>,
     has_sticker_emoji |-> FALSE, sticker_emoji |-> <<>>]

\* a chat entry of the export
ChatEntry(name, type, messages) ==
    [has_name |-> TRUE, name |-> name, id |-> 7, type |-> type, messages |-> messages]

\* the entry without "name": the self-record ("Saved Messages")
SelfEntry(id, messages) ==
    [has_name |-> FALSE, name |-> <<>>, id |-> id, type |-> "saved_messages",
     messages |-> messages]

MaxChatMsgs == 4

RECURSIVE DateAt(_, _, _)
\* the date of the i-th message: the first date and the gaps up to i
DateAt(first, gaps, i) ==
    IF i = 1 THEN first ELSE DateAt(first, gaps, i - 1) + gaps[i]

\* the message list of n records with the given authors, first date and gaps
WellFormedList(n, authors, first, gaps) ==
    [i \in 1..n |-> RawMessage(authors[i], DateAt(first, gaps, i), <<"h">>)]

SelfBob == SelfEntry(2, <<RawMessage(Alice, Cutoff + 1000, <<"h">>),
                          RawMessage(Bob, Cutoff + 1000, <<"h">>)>>)

\* the export is one ordinary chat of complete records, any authors and
\* non-decreasing dates, with or without a self-record before it
OneChatExport ==
    \E n \in 0..MaxChatMsgs :
       \E authors \in [1..n -> Authors], gaps \in [2..n -> ChatGaps],
          first \in FirstDates, self \in BOOLEAN :
          input = IF self
                  THEN <<SelfBob, ChatEntry(<<"c">>, "private_group",
                                            WellFormedList(n, authors, first, gaps))>>
                  ELSE <<ChatEntry(<<"c">>, "personal_chat",
                                   WellFormedList(n, authors, first, gaps))>>

\* message records as exports hold them: complete, several fragments and a
\* sticker, a sticker alone, a service record without sender, an empty sender,
\* no text, no "text_entities" key, neither sender nor "text_entities"
RawRecords ==
    LET m == RawMessage(Alice, Cutoff + 1000, <<"h">>) IN
    { m,
      [m EXCEPT !.from = Bob, !.text_entities = <<<<"h">>, <<"i">>>>,
                !.has_sticker_emoji = TRUE, !.sticker_emoji = <<"*">>],
      [m EXCEPT !.text_entities = <<>>, !.has_sticker_emoji = TRUE,
                !.sticker_emoji = <<"*">>],
      [m EXCEPT !.has_from = FALSE, !.from = <<>>, !.text_entities = <<>>],
      [m EXCEPT !.from = <<>>],
      [m EXCEPT !.text_entities = <<>>],
      [m EXCEPT !.has_text_entities = FALSE, !.text_entities = <<>>],
      [m EXCEPT !.has_from = FALSE, !.from = <<>>,
                !.has_text_entities = FALSE, !.text_entities = <<>>] }

MaxRawMsgs == 2

\* the export is one ordinary chat of any such records
RawChatExport ==
    \E n \in 0..MaxRawMsgs :
       \E records \in [1..n -> RawRecords] :
          input = <<ChatEntry(<<"c">>, "personal_chat", [i \in 1..n |-> records[i]])>>

\* chat entries combined into exports of several chats
Entries ==
    LET new == Cutoff + 1000
        old == Cutoff - 5000
        q == <<"q", "\"">>
    IN
    { \* the self-record naming Bob
      SelfBob,
      \* a self-record none of whose messages is from user{id}
      SelfEntry(1, <<RawMessage(Bob, new, <<"h">>)>>),
      \* a self-record whose message has no "from_id"
      SelfEntry(1, <<[RawMessage(Alice, new, <<"h">>) EXCEPT !.has_from_id = FALSE]>>),
      \* a deleted account: the name is empty
      ChatEntry(<<>>, "personal_chat", <<RawMessage(Alice, new, <<"h">>)>>),
      \* a chat of a kind class Chat does not list
      ChatEntry(<<"b">>, "bot_chat", <<RawMessage(Alice, new, <<"h">>)>>),
      \* question and answer
      ChatEntry(<<"c">>, "personal_chat",
                <<RawMessage(Bob, new, q), RawMessage(Alice, new + 120, <<"a">>)>>),
      \* every message older than the cutoff
      ChatEntry(<<"d">>, "personal_chat",
                <<RawMessage(Bob, old, <<"h">>), RawMessage(Alice, old + 120, <<"a">>)>>),
      \* two sessions, both with an answer of Alice
      ChatEntry(<<"e">>, "private_group",
                <<RawMessage(Bob, new, <<"h">>), RawMessage(Alice, new + 60, <<"a">>),
                  RawMessage(Bob, new + 780, <<"i">>), RawMessage(Alice, new + 840, <<"b">>)>>),
      \* Alice only in the first merge-run
      ChatEntry(<<"f">>, "private_supergroup",
                <<RawMessage(Alice, new, <<"h">>), RawMessage(Alice, new + 60, <<"i">>),
                  RawMessage(Bob, new + 120, <<"a">>)>>),
      \* a record without "text_entities" after a complete one
      ChatEntry(<<"g">>, "personal_chat",
                <<RawMessage(Bob, new, <<"h">>),
                  [RawMessage(Alice, new + 60, <<>>) EXCEPT
                     !.has_text_entities = FALSE, !.text_entities = <<>>]>>) }

MaxChats == 2

\* the export is any list of such entries
SeveralChatsExport ==
    \E n \in 0..MaxChats :
       \E entries \in [1..n -> Entries] : input = [i \in 1..n |-> entries[i]]

\* what a previous run left in the output file
StaleContent == <<"o", "l", "d", "\n">>

Init ==
    /\ (OneChatExport \/ RawChatExport \/ SeveralChatsExport)
    /\ target_arg \in {NoneValue, SomeStr(<<>>), SomeStr(Alice)}
    /\ last_x_months = DefaultMonths
    /\ session_minutes_threshold = DefaultThreshold
    /\ delimiter = DefaultDelimiter
    /\ now = Clock
    /\ impl \in {"refactored", "original"}
    /\ pc = "start"
    /\ chats = <<>>
    /\ target_name = NoneValue
    /\ outfile = StaleContent
    /\ warned = FALSE
    /\ error = ""
    /\ fn_messages = <<>>
    /\ fn_sessions = <<>>
    /\ fn_merged = <<>>
    /\ fn_remerged = <<>>

-----------------------------------------------------------------------------
(* Direct calls of the two functions *)

Texts == {<<"h">>, <<" ", "i">>}

\* the default, and one that is whitespace only
Delimiters == {DefaultDelimiter, <<" ">>}

Thresholds == {DefaultThreshold}

\* gaps between adjacent messages, in seconds: a minute back, none, one second
\* below the threshold, the threshold, one day
Gaps == {-60, 0, 599, 600, 86400}

MaxMsgs == 3

\* the list given to create_sessions: up to MaxMsgs messages of any authors
\* and texts, the first at date 0, the others at the given gaps
FnInput ==
    \E n \in 0..MaxMsgs :
       \E authors \in [1..n -> Authors], texts \in [1..n -> Texts],
          gaps \in [2..n -> Gaps] :
          fn_messages = [i \in 1..n |-> [date |-> DateAt(0, gaps, i),
                                         author |-> authors[i],
                                         text |-> texts[i]]]

FnInit ==
    /\ FnInput
    /\ session_minutes_threshold \in Thresholds
    /\ delimiter \in Delimiters
    /\ fn_sessions = <<>>
    /\ fn_merged = <<>>
    /\ fn_remerged = <<>>
    /\ pc = "fn_start"
    /\ input = <<>>
    /\ target_arg = NoneValue
    /\ last_x_months = 0
    /\ now = 0
    /\ impl = "none"
    /\ chats = <<>>
    /\ target_name = NoneValue
    /\ outfile = <<>>
    /\ warned = FALSE
    /\ error = ""

CallCreateSessions ==
    /\ pc = "fn_start"
    /\ fn_sessions' = create_sessions(fn_messages, session_minutes_threshold)
    /\ pc' = "fn_created"
    /\ UNCHANGED <<config_vars, chats, target_name, outfile, warned, error,
                   fn_messages, fn_merged, fn_remerged>>

CallCombine ==
    /\ pc = "fn_created"
    /\ fn_merged' = combine_consecutive_messages(fn_sessions, delimiter)
    /\ pc' = "fn_merged"
    /\ UNCHANGED <<config_vars, chats, target_name, outfile, warned, error,
                   fn_messages, fn_sessions, fn_remerged>>

CallCombineAgain ==
    /\ pc = "fn_merged"
    /\ fn_remerged' = combine_consecutive_messages(fn_merged, delimiter)
    /\ pc' = "fn_remerged"
    /\ UNCHANGED <<config_vars, chats, target_name, outfile, warned, error,
                   fn_messages, fn_sessions, fn_merged>>

-----------------------------------------------------------------------------

Next ==
    \/ R_Load \/ R_DateFilter \/ R_Sessions \/ R_Write
    \/ O_Load \/ O_DateFilter \/ O_Segment \/ O_Merge \/ O_Filter
    \/ O_RemoveDate \/ O_Write
    \/ CallCreateSessions \/ CallCombine \/ CallCombineAgain

\* a run of transform_chats on an export, or direct calls of the two functions
Spec == (Init \/ FnInit) /\ [][Next]_vars

-----------------------------------------------------------------------------
(* Properties *)

\* the k-th smallest element of a set of numbers
Nth(I, k) == CHOOSE i \in I : Cardinality({j \in I : j <= i}) = k

\* the elements of s at the indexes of I, in increasing order of index
Pick(s, I) == [k \in 1..Cardinality(I) |-> s[Nth(I, k)]]

RECURSIVE TotalLen(_, _)
\* the number of messages of the first n sessions
TotalLen(sessions, n) ==
    IF n = 0 THEN 0 ELSE TotalLen(sessions, n - 1) + Len(sessions[n])

\* the positions, in the message list, of the first message of each session
SessionStarts(sessions) ==
    {TotalLen(sessions, k - 1) + 1 : k \in 1..Len(sessions)}

CreatedByCall == pc \in {"fn_created", "fn_merged", "fn_remerged"}

MergedByCall == pc \in {"fn_merged", "fn_remerged"}

\* C1: create_sessions decides on the true elapsed time: of two adjacent
\* messages with non-decreasing dates the later one starts a new session if
\* and only if the elapsed time is at least threshold minutes, whatever the
\* size of the gap (a day or more included).
C1_TrueElapsedTime ==
    CreatedByCall =>
      \A i \in 1..(Len(fn_messages) - 1) :
         fn_messages[i + 1].date >= fn_messages[i].date =>
           ((i + 1) \in SessionStarts(fn_sessions)
              <=> fn_messages[i + 1].date - fn_messages[i].date
                    >= session_minutes_threshold * SecondsPerMinute)

\* the chats a date filter is to leave: those with a message newer than the
\* cutoff, each with exactly its newer messages
NewerIndexes(messages, cutoff) ==
    {j \in 1..Len(messages) : messages[j].date > cutoff}

ChatsNewerThan(loaded, cutoff) ==
    LET keep == {i \in 1..Len(loaded) : NewerIndexes(loaded[i].messages, cutoff) # {}}
        kept == Pick(loaded, keep)
    IN  [k \in 1..Len(kept) |->
           [kept[k] EXCEPT !.messages = Pick(@, NewerIndexes(@, cutoff))]]

\* C2: after the date filter of the refactored transform_chats the working
\* set is exactly the loaded chats that have a message newer than the cutoff,
\* in order, each with exactly its newer messages.
C2_DateFilterKeepsNewerChats ==
    (impl = "refactored" /\ pc = "filtered") =>
      chats = ChatsNewerThan(load_chats(input).chats,
                             now - last_x_months * DaysPerMonth * SecondsPerDay)

IsSelf(entry) == ~entry.has_name

\* a self-record all of whose messages carry from_id and none is from user{id}
UnmatchedSelf(entry) ==
    /\ IsSelf(entry)
    /\ \A j \in 1..Len(entry.messages) :
         /\ entry.messages[j].has_from_id
         /\ entry.messages[j].from_id # [kind |-> "user", n |-> entry.id]

\* an entry load_chats has no other reason to stop at
Sound(entry) ==
    IF IsSelf(entry)
    THEN \/ UnmatchedSelf(entry)
         \/ /\ \A j \in 1..Len(entry.messages) :
                 entry.messages[j].has_from_id /\ entry.messages[j].has_from
    ELSE /\ entry.type \in ChatTypes
         /\ \A j \in 1..Len(entry.messages) : entry.messages[j].has_text_entities

\* C3: a self-record without a message from user{id} does not abort the load:
\* target_name stays None, a warning is logged, the run goes on.
C3_UnmatchedSelfRecordIsRecoverable ==
    ( /\ impl \in {"refactored", "original"}
      /\ pc # "start"
      /\ \A i \in 1..Len(input) : Sound(input[i])
      /\ \E i \in 1..Len(input) : UnmatchedSelf(input[i])
      /\ \A i \in 1..Len(input) : IsSelf(input[i]) => UnmatchedSelf(input[i]) )
    => /\ pc # "raised"
       /\ error = ""
       /\ warned
       /\ target_name = (IF Truthy(target_arg) THEN target_arg ELSE NoneValue)

\* the authors of a session, in order
AuthorsOf(session) == [m \in 1..Len(session) |-> session[m].author]

\* C4 as claimed: combine_consecutive_messages applied to its own result
\* returns it unchanged, texts included.
C4_Idempotent ==
    pc = "fn_remerged" => fn_remerged = fn_merged

\* str.lstrip(), stated by position: what follows the leading whitespace
Stripped(d) ==
    LET lead == {n \in 0..Len(d) : \A j \in 1..n : d[j] \in Whitespace}
        n == CHOOSE n \in lead : \A o \in lead : o <= n
    IN  SubSeq(d, n + 1, Len(d))

\* C4 as amended: applied to its own result, combine_consecutive_messages
\* keeps the sessions, the messages and their authors, and puts the stripped
\* delimiter once more in front of every text; the result is unchanged
\* exactly when the stripped delimiter is empty.
C4_IdempotentUpToPrefix ==
    pc = "fn_remerged" =>
      /\ Len(fn_remerged) = Len(fn_merged)
      /\ \A k \in 1..Len(fn_merged) :
           /\ AuthorsOf(fn_remerged[k]) = AuthorsOf(fn_merged[k])
           /\ \A m \in 1..Len(fn_merged[k]) :
                /\ fn_remerged[k][m].text = Stripped(delimiter) \o fn_merged[k][m].text
                /\ fn_remerged[k][m].date = fn_merged[k][m].date
      /\ (fn_merged # <<>> => (fn_remerged = fn_merged <=> Stripped(delimiter) = <<>>))

\* a second application on sessions with merged runs, with both kinds of delimiter
C4_Witness ==
    /\ pc = "fn_remerged"
    /\ Stripped(delimiter) # <<>>
    /\ \E k \in 1..Len(fn_merged) :
         /\ Len(fn_merged[k]) >= 2
         /\ Len(fn_merged[k]) < Len(fn_sessions[k])
         /\ fn_remerged[k] # fn_merged[k]

\* the first positions of the maximal runs of one author
RunStarts(session) ==
    {i \in 1..Len(session) : i = 1 \/ session[i].author # session[i - 1].author}

\* the last position of the run that starts at i
RunEnd(session, i) ==
    CHOOSE j \in i..Len(session) :
       /\ \A k \in i..j : session[k].author = session[i].author
       /\ (j = Len(session) \/ session[j + 1].author # session[i].author)

RECURSIVE JoinedTexts(_, _, _, _)
\* t_i + d + t_(i+1) + ... + d + t_j
JoinedTexts(session, i, j, d) ==
    IF j = i THEN session[i].text
    ELSE JoinedTexts(session, i, j - 1, d) \o d \o session[j].text

\* merged is session with every maximal run collapsed as the contract says
IsMergeOf(merged, session, d) ==
    LET starts == RunStarts(session) IN
    /\ Len(merged) = Cardinality(starts)
    /\ \A i \in starts :
         LET k == Cardinality({r \in starts : r <= i}) IN
         /\ merged[k].author = session[i].author
         /\ merged[k].text
              = Stripped(d) \o JoinedTexts(session, i, RunEnd(session, i), d)

\* C6: combine_consecutive_messages yields one message per maximal run of one
\* author, in order, with the author of the run's first member and the text
\* lstrip(d) + t1 + d + t2 + ... + d + tk.
C6_MergeRuns ==
    MergedByCall =>
      /\ Len(fn_merged) = Len(fn_sessions)
      /\ \A k \in 1..Len(fn_sessions) :
           IsMergeOf(fn_merged[k], fn_sessions[k], delimiter)

\* the example of the contract: Bob, Bob, Alice under the default delimiter
C6_Witness ==
    /\ pc = "fn_merged"
    /\ delimiter = DefaultDelimiter
    /\ \E k \in 1..Len(fn_sessions) :
         /\ AuthorsOf(fn_sessions[k]) = <<Bob, Bob, Alice>>
         /\ fn_sessions[k][1].text = <<"h">> /\ fn_sessions[k][2].text = <<" ", "i">>
         /\ fn_merged[k][1].text = <<">", ">", ">", "h", "\n", ">", ">", ">", " ", "i">>
         /\ fn_merged[k][2].text = <<">", ">", ">">> \o fn_sessions[k][3].text

\* a session is non-empty and no two adjacent messages have the same author
Alternating(session) ==
    /\ Len(session) >= 1
    /\ \A m \in 1..(Len(session) - 1) : session[m].author # session[m + 1].author

\* C7: every session made by create_sessions and then merged is non-empty and
\* has no two adjacent messages of one author, in a direct call and in every
\* chat of a run at the point its sessions are filtered and written.
C7_MergedSessionsAlternate ==
    /\ MergedByCall =>
         /\ TotalLen(fn_sessions, Len(fn_sessions)) = Len(fn_messages)
         /\ \A k \in 1..Len(fn_merged) : Alternating(fn_merged[k])
    /\ pc \in {"merged", "sessions", "undated", "done"} =>
         \A i \in 1..Len(chats) :
            \A k \in 1..Len(chats[i].sessions) : Alternating(chats[i].sessions[k])

\* a direct call that made several sessions and merged a run in one of them
C7_Witness ==
    /\ pc = "fn_merged"
    /\ Len(fn_merged) >= 2
    /\ \E k \in 1..Len(fn_merged) :
         Len(fn_merged[k]) >= 1 /\ Len(fn_merged[k]) < Len(fn_sessions[k])

\* the target of the run: the argument unless it is None or empty, otherwise
\* what load_chats extracted
EffectiveTarget ==
    IF target_arg.some /\ target_arg.val # <<>> THEN target_arg
    ELSE load_chats(input).target_name

\* a message after the first one is written by the target
HasTargetAfterFirst(session, target) ==
    \E m \in 2..Len(session) : target.some /\ session[m].author = target.val

KeptSessions(sessions, target) ==
    Pick(sessions, {k \in 1..Len(sessions) : HasTargetAfterFirst(sessions[k], target)})

\* the merged sessions of a chat's messages in the refactored run
MergedSessionsOf(chat) ==
    combine_consecutive_messages(
        create_sessions(chat.messages, session_minutes_threshold), delimiter)

\* C5: the session filter of transform_chats keeps a merged session if and only
\* if a message at position >= 1 has the effective target_name as author; so
\* every session that reaches the output has such a message, and when the
\* effective target_name is None no session is kept and the file is empty.
C5_SessionFilter ==
    /\ [][ /\ (pc = "merged" /\ pc' = "sessions") =>
                /\ Len(chats') = Len(chats)
                /\ \A i \in 1..Len(chats) :
                     chats'[i].sessions = KeptSessions(chats[i].sessions, EffectiveTarget)
           /\ (pc = "filtered" /\ pc' = "sessions") =>
                /\ Len(chats') = Len(chats)
                /\ \A i \in 1..Len(chats) :
                     chats'[i].sessions = KeptSessions(MergedSessionsOf(chats[i]),
                                                       EffectiveTarget) ]_vars
    /\ [](pc \in {"sessions", "undated", "done"} =>
            \A i \in 1..Len(chats) : \A k \in 1..Len(chats[i].sessions) :
               HasTargetAfterFirst(chats[i].sessions[k], EffectiveTarget))
    /\ [](pc = "done" /\ ~EffectiveTarget.some => outfile = <<>>)

\* the filter has kept one session of a chat and discarded another whose only
\* message of the target is its first
C5_Witness ==
    /\ pc = "sessions"
    /\ target_name = SomeStr(Alice)
    /\ \E i \in 1..Len(chats) :
         LET merged == MergedSessionsOf(chats[i]) IN
         /\ Len(chats[i].sessions) >= 1
         /\ \E k \in 1..Len(merged) :
              /\ merged[k][1].author = Alice
              /\ Len(merged[k]) >= 2
              /\ \A n \in 1..Len(chats[i].sessions) :
                   chats[i].sessions[n] # merged[k]

RECURSIVE Flatten(_, _)
\* the sessions of the first n chats, chat by chat
Flatten(cs, n) ==
    IF n = 0 THEN <<>> ELSE Flatten(cs, n - 1) \o cs[n].sessions

RECURSIVE TurnBlocks(_, _)
\* the turn blocks of the first n messages of a session, joined by newlines
TurnBlocks(session, n) ==
    IF n = 0 THEN <<>>
    ELSE (IF n = 1 THEN <<>> ELSE TurnBlocks(session, n - 1) \o <<"\n">>)
         \o IM_START \o session[n].author \o <<"\n">> \o session[n].text \o IM_END

\* the newline-terminated lines of a file, and what follows the last newline
SplitLines(file) ==
    LET ends == {i \in 1..Len(file) : file[i] = "\n"}
        from(k) == IF k = 1 THEN 1 ELSE Nth(ends, k - 1) + 1
        last == IF ends = {} THEN 0 ELSE Nth(ends, Cardinality(ends))
    IN  [lines |-> [k \in 1..Cardinality(ends) |->
                      SubSeq(file, from(k), Nth(ends, k) - 1)],
         rest |-> SubSeq(file, last + 1, Len(file))]

Unescaped == [c \in {"n", "r", "t", "f", "\"", "\\"} |->
                CASE c = "n" -> "\n" [] c = "r" -> "\r" [] c = "t" -> "\t"
                  [] c = "f" -> "\f" [] OTHER -> c]

\* the str a JSON string body stands for; ok is FALSE when it is no string
\* body. A backslash opens an escape when an even number of backslashes
\* stands right before it; the character after it is then part of the escape.
JsonString(body) ==
    LET before(i) == CHOOSE n \in 0..(i - 1) :
                        /\ \A j \in (i - n)..(i - 1) : body[j] = "\\"
                        /\ (n = i - 1 \/ body[i - n - 1] # "\\")
        opens == {i \in 1..Len(body) : body[i] = "\\" /\ before(i) % 2 = 0}
        units == {i \in 1..Len(body) : (i - 1) \notin opens}
    IN  [ok |-> /\ \A i \in opens : i < Len(body) /\ body[i + 1] \in DOMAIN Unescaped
                /\ \A i \in units \ opens : body[i] \notin {"\"", "\n", "\r", "\t", "\f"},
         val |-> [k \in 1..Cardinality(units) |->
                    LET i == Nth(units, k) IN
                    IF i \in opens THEN Unescaped[body[i + 1]] ELSE body[i]]]

\* line is the JSON object {"text": <string>} and the string stands for text
IsTextRecord(line, text) ==
    LET open == <<"{", "\"", "t", "e", "x", "t", "\"", ":", " ", "\"">>
        close == <<"\"", "}">>
        n == Len(line)
    IN  /\ n >= Len(open) + Len(close)
        /\ SubSeq(line, 1, Len(open)) = open
        /\ SubSeq(line, n - 1, n) = close
        /\ LET r == JsonString(SubSeq(line, Len(open) + 1, n - 2)) IN
             r.ok /\ r.val = text

\* C8: after a run the output file holds one line per session that survived
\* the session filter, by chat and then by session, and nothing else; each
\* line is the JSON object whose "text" is the session's turn blocks
\* "<|im_start|>" + author + "\n" + text + "<|im_end|>" joined by newlines.
C8_OutputLines ==
    pc = "done" =>
      LET file == SplitLines(outfile)
          sessions == Flatten(chats, Len(chats))
      IN  /\ file.rest = <<>>
          /\ Len(file.lines) = Len(sessions)
          /\ \A n \in 1..Len(sessions) :
               IsTextRecord(file.lines[n], TurnBlocks(sessions[n], Len(sessions[n])))

\* a run that wrote the sessions of two chats, two of them of one chat, over
\* the content of a previous run
C8_Witness ==
    /\ pc = "done"
    /\ Len(SplitLines(outfile).lines) >= 3
    /\ \E i, j \in 1..Len(chats) :
         i < j /\ Len(chats[i].sessions) >= 2 /\ Len(chats[j].sessions) >= 1
    /\ \E i \in 1..Len(chats) : \E k \in 1..Len(chats[i].sessions) :
         \E m \in 1..Len(chats[i].sessions[k]) :
            \E c \in 1..Len(chats[i].sessions[k][m].text) :
               chats[i].sessions[k][m].text[c] = "\""

\* the Message list the loader is to build from the records of a chat
UsableIndexes(raw) ==
    {j \in 1..Len(raw) :
       /\ raw[j].has_from /\ raw[j].from # <<>>
       /\ ((raw[j].has_text_entities /\ raw[j].text_entities # <<>>)
           \/ raw[j].has_sticker_emoji)}

ExpectedMessages(raw) ==
    LET usable == Pick(raw, UsableIndexes(raw)) IN
    [j \in 1..Len(usable) |->
       [date |-> usable[j].date,
        author |-> usable[j].from,
        text |-> JoinAll(IF usable[j].has_text_entities
                         THEN usable[j].text_entities ELSE <<>>)
                 \o (IF usable[j].has_sticker_emoji
                     THEN usable[j].sticker_emoji ELSE <<>>)]]

ExpectedChats(export) ==
    LET keep == {i \in 1..Len(export) :
                   export[i].name # <<>> /\ UsableIndexes(export[i].messages) # {}}
        kept == Pick(export, keep)
    IN  [k \in 1..Len(kept) |->
           [name |-> kept[k].name, type |-> kept[k].type,
            messages |-> ExpectedMessages(kept[k].messages), sessions |-> <<>>]]

\* C9: load_chats never aborts on a malformed message record of a valid
\* export: it builds each chat from exactly the records with a non-empty
\* sender and text or a sticker, skips the others (a record without
\* "text_entities" included) and drops the chats left without messages.
C9_MalformedRecordsAreSkipped ==
    ( /\ impl \in {"refactored", "original"}
      /\ pc # "start"
      /\ \A i \in 1..Len(input) :
           input[i].has_name /\ input[i].type \in ChatTypes )
    => /\ pc # "raised"
       /\ pc = "loaded" => chats = ExpectedChats(input)

\* what the refactored and the original transform_chats write for the
\* export and configuration of the run
RefactoredChats ==
    date_filter(load_chats(input).chats, cutoff_date(now, last_x_months))

RefactoredOutput ==
    LET target == IF Truthy(target_arg) THEN target_arg
                  ELSE load_chats(input).target_name
    IN  write_output(StaleContent,
          all_sessions([i \in 1..Len(RefactoredChats) |->
             [RefactoredChats[i] EXCEPT !.sessions =
                chat_sessions(RefactoredChats[i], session_minutes_threshold,
                              delimiter, target)]]))

OriginalChats ==
    O_date_filter(load_chats(input).chats,
                  now - last_x_months * DaysPerMonth * SecondsPerDay)

OriginalOutput ==
    LET target == IF ~Truthy(target_arg) THEN load_chats(input).target_name
                  ELSE target_arg
    IN  O_write_output(StaleContent,
          O_all_sessions([i \in 1..Len(OriginalChats) |->
             [OriginalChats[i] EXCEPT !.sessions =
                O_session_filter(
                  [k \in 1..Len(O_sessions_loop(OriginalChats[i].messages,
                                     session_minutes_threshold, <<>>, <<>>)) |->
                     O_merge_session(
                       O_sessions_loop(OriginalChats[i].messages,
                                       session_minutes_threshold, <<>>, <<>>)[k],
                       delimiter)],
                  target)]]))

\* C10: the refactored and the original transform_chats write the same lines
\* for the same export, configuration and clock, and leave the same chats
\* after the date filter.
C10_SameOutput ==
    /\ pc = "filtered" =>
         chats = (IF impl = "refactored" THEN OriginalChats ELSE RefactoredChats)
    /\ pc = "done" =>
         outfile = (IF impl = "refactored" THEN OriginalOutput ELSE RefactoredOutput)

====
